---- MODULE Spec2Model ----
(***************************************************************************)
(* State-machine model of the BLE transport layer of OpenEPaperCliTool:    *)
(* BLEConnection (eink_cli/ble/connection.py): the retry loop of           *)
(* __aenter__, _cleanup / __aexit__, the notification callback and the     *)
(* command writers; the discovery scan (eink_cli/ble/discovery.py); and    *)
(* DeviceManager (eink_cli/device.py): connect_device and upload_image.    *)
(*                                                                         *)
(* Every await of the Python code is a suspension point, so every action   *)
(* below runs the code from one await to the next.  Times are integers in  *)
(* milliseconds.                                                           *)
(***************************************************************************)
EXTENDS Integers, Sequences, FiniteSets, TLC

VARIABLES
    client,               \* self.client: "None", or "client" (a client object)
    write_char,           \* self.write_char is set (a resolved characteristic)
    notification_active,  \* self._notification_active
    response_queue,       \* self._response_queue, oldest notification first
    linkUp,               \* transport: self.client.is_connected
    subscribed,           \* transport: notifications are enabled on self.client
    orphans,              \* transport: links left up on client objects that
                          \*   self.client no longer refers to
    pc,                   \* position of the task running __aenter__
    attempt,              \* loop variable of __aenter__
    error,                \* the exception __aenter__ is raising, or NoError
    sleeps,               \* the asyncio.sleep calls of the running __aenter__, in order
    linksMade,            \* links the running __aenter__ has established
    onlyNotFound,         \* every failed attempt of the running __aenter__ ended
                          \*   on "device not found"
    spc,                  \* per caller: position inside write_command[_with_response]
    sendKind,             \* per caller: which of the two writers it is in
    myWrite,              \* per caller: index of the write its current call issued
    result,               \* per caller: outcome of its latest call
    writes,               \* number of write_gatt_char calls issued so far
    delivered,            \* the writes (by index) issued while the link was up
    notifs,               \* number of notifications the transport has pushed
    closes,               \* number of close calls (__aexit__) made so far
    closeRaised,          \* some close call raised
    closeActed,           \* some close call issued a transport call
    timeouts,             \* number of calls that ended in BLETimeoutError
    faults,               \* number of disconnect calls that failed and left the link up
    calls,                \* transport calls issued by the program's latest step, in order
    exc,                  \* exception raised inside __aenter__ by its latest step
    excAt,                \* the stage of the attempt that raised it
    op,                   \* the DeviceManager operation in progress or last run
    dpc,                  \* position of the task running it
    protocol,             \* connect_device: its `protocol` argument / local
    dfind,                \* connect_device: what its find_device_by_mac call gave
    outcome,              \* what the latest DeviceManager operation returned or raised
    conn,                 \* the BLEConnection object the operation works on (0: none)
    nconn,                \* number of BLEConnection objects constructed so far
    infoConn,             \* device_info['connection'] of the latest connect_device
    uattempt,             \* upload_image: its loop variable
    max_upload_retries,   \* upload_image: its bound
    ulog,                 \* upload_image: the attempts ended so far (connection, result)
    usleeps,              \* upload_image: its backoff sleeps (delay, link up at its start)
    uploader_calls,       \* upload_image: the uploader methods it invoked (attempt, method)
    dscans,               \* discovery scans started by the running operation
    adverts,              \* what the scan of the latest discover_devices call
                          \*   observed, in observation order
    eink_devices,         \* what the latest discover_devices returned
    find_arg,             \* find_device_by_mac: its mac_address argument
    find_ret,             \* find_device_by_mac: what it returned
    uopens,               \* upload_image: number of __aenter__ calls that have ended
    link_attempts,        \* upload_image: loop iterations those calls made, in total
    inbox,                \* bridge: messages received and not yet handled
    bpc,                  \* bridge: position of the thread running _on_message
    updates,              \* bridge: what _send_to_device returned, per update
    arrived               \* bridge: number of messages received so far

vars == <<client, write_char, notification_active, response_queue, linkUp,
          subscribed, orphans, pc, attempt, error, sleeps, linksMade,
          onlyNotFound, spc, sendKind, myWrite, result, writes, delivered,
          notifs, closes, closeRaised, closeActed, timeouts, faults, calls,
          exc, excAt, op, dpc, protocol, dfind, outcome, conn, nconn, infoConn,
          uattempt, max_upload_retries, ulog, usleeps, uploader_calls, dscans, adverts,
          eink_devices, find_arg, find_ret, uopens, link_attempts, inbox, bpc, updates, arrived>>

connVars == <<client, write_char, notification_active, response_queue>>
linkVars == <<linkUp, subscribed, orphans>>
openVars == <<pc, attempt, error, sleeps, linksMade, onlyNotFound>>
sendVars == <<spc, sendKind, myWrite, result, writes, delivered, timeouts>>
closeVars == <<closes, closeRaised, closeActed>>
scanVars == <<adverts, eink_devices, find_arg, find_ret>>
connectVars == <<protocol, dfind, conn, nconn, infoConn>>
uploadVars == <<uattempt, max_upload_retries, ulog, usleeps, uploader_calls>>
orchVars == <<uopens, link_attempts, inbox, bpc, updates, arrived>>
devVars == <<op, dpc, outcome, dscans, connectVars, uploadVars, scanVars, orchVars>>

(***************************************************************************)
(* Bounds of the model.                                                    *)
(***************************************************************************)
MaxNotifs == 3      \* notifications pushed by the device in one run
MaxCmds == 2        \* commands issued by the callers in one run
MaxCloses == 2      \* close calls in one run
MaxEvents == 4      \* writes, notifications and close calls in one run, together
MaxFaults == 1      \* disconnect calls that fail and leave the link up, in one run
MaxAdverts == 3     \* advertisements observed by one discovery scan
MaxUploadRetries == 3   \* largest max_retries argument given to upload_image
MaxNestedRetries == 2   \* the same, in the runs that step through each __aenter__
MaxMessages == 2        \* messages the broker delivers to the bridge in one run

(***************************************************************************)
(* Program constants.                                                      *)
(***************************************************************************)
max_retries == 6
base_delay == 1000
scan_pause == 500
upload_base_delay == 2000

\* upload_image(..., max_retries: int = 3)
DefaultUploadRetries == 3

NoCount == 0
NoError == [type |-> "none", addr |-> FALSE, attempts |-> NoCount, cause |-> "none"]

\* The exception classes named by the first except clause of __aenter__.
RetryExc == {"BleakNotFoundError", "BLEConnectionError", "TimeoutError"}
\* Exception classes that only the second clause (except Exception) catches.
OtherExc == {"BleakError", "BLEProtocolError", "BLETimeoutError"}

\* What the awaited calls of an attempt can raise.
ScanExc == {"BleakError"}
LinkExc == {"BleakNotFoundError", "TimeoutError", "BleakError"}
NotifyExc == {"BleakError", "TimeoutError"}
HandshakeExc == {"BLEProtocolError", "BLETimeoutError", "BleakError", "TimeoutError",
                 "BLEConnectionError"}
\* Outcome of stop_notify, and of disconnect (a failed disconnect may or may not
\* have taken the link down).
StopOutcome == {"ok", "fail"}
DiscOutcome == {"ok", "fail_down", "fail_up"}
Stuck(dc) == IF dc = "fail_up" THEN 1 ELSE 0

Running == {"pause", "scan", "sleep", "link", "resolve_disc", "subscribe", "handshake",
            "returning", "raising"}
Suspended == {"pause", "scan", "sleep", "link", "resolve_disc", "subscribe", "handshake"}
Callers == {1, 2}

RECURSIVE Pow2(_)
Pow2(n) == IF n = 0 THEN 1 ELSE 2 * Pow2(n - 1)

\* A linear delay, as the upload loop uses, in place of the exponential one.
BackoffLinear(a) == base_delay * (a + 1)

\* delay = base_delay * (2 ** attempt)
BackoffDelay(a) == base_delay * Pow2(a)

Backoff(a) == [kind |-> "backoff", dur |-> BackoffDelay(a)]
Pause == [kind |-> "pause", dur |-> scan_pause]

Events == writes + notifs + closes

is_connected == client # "None" /\ linkUp

(***************************************************************************)
(* _cleanup (lines 123-136), run to completion on a Connection whose link  *)
(* is up or not (up), whose transport subscription is sub and whose flag   *)
(* is act, with stop_notify ending `so` and disconnect ending `dc`: the    *)
(* flag and the transport afterwards, the transport calls it issued, in    *)
(* order, how many disconnects left the link up, and whether it raised.    *)
(***************************************************************************)
\* A cleanup that lets a failing disconnect propagate.
CleanupPropagates(up, sub, act, so, dc) ==
    IF client # "None" /\ up
    THEN [linkUp |-> dc = "fail_up",
          subscribed |-> dc = "fail_up" /\ sub /\ ~(act /\ so = "ok"),
          active |-> FALSE,
          calls |-> (IF act THEN <<"stop_notify">> ELSE <<>>) \o <<"disconnect">>,
          failed |-> Stuck(dc),
          raises |-> dc # "ok"]
    ELSE [linkUp |-> up, subscribed |-> sub, active |-> act, calls |-> <<>>,
          failed |-> 0, raises |-> FALSE]

\* A cleanup that unsubscribes but disconnects only when it had to unsubscribe.
CleanupKeepsLink(up, sub, act, so, dc) ==
    IF client # "None" /\ up /\ act
    THEN [linkUp |-> dc = "fail_up",
          subscribed |-> dc = "fail_up" /\ sub /\ so # "ok",
          active |-> FALSE,
          calls |-> <<"stop_notify", "disconnect">>,
          failed |-> Stuck(dc),
          raises |-> FALSE]
    ELSE [linkUp |-> up, subscribed |-> sub, active |-> act, calls |-> <<>>,
          failed |-> 0, raises |-> FALSE]

CleanupOf(up, sub, act, so, dc) ==
    IF client # "None" /\ up
    THEN LET s1 == IF act /\ so = "ok" THEN FALSE ELSE sub
             down == dc \in {"ok", "fail_down"}
         IN  [linkUp |-> ~down,
              subscribed |-> IF down THEN FALSE ELSE s1,
              active |-> FALSE,
              calls |-> (IF act THEN <<"stop_notify">> ELSE <<>>) \o <<"disconnect">>,
              failed |-> Stuck(dc),
              raises |-> FALSE]
    ELSE [linkUp |-> up,
          subscribed |-> sub,
          active |-> act,
          calls |-> <<>>,
          failed |-> 0,
          raises |-> FALSE]

NoOutcome == [kind |-> "none", exc |-> "none", cause |-> "none"]

CleanupResult(so, dc) == CleanupOf(linkUp, subscribed, notification_active, so, dc)

InitWith(f) ==
    /\ client = "None"
    /\ write_char = FALSE
    /\ notification_active = FALSE
    /\ response_queue = <<>>
    /\ linkUp = FALSE
    /\ subscribed = FALSE
    /\ orphans = 0
    /\ pc = "idle"
    /\ attempt = 0
    /\ error = NoError
    /\ sleeps = <<>>
    /\ linksMade = 0
    /\ onlyNotFound = TRUE
    /\ spc = [p \in Callers |-> "none"]
    /\ sendKind = [p \in Callers |-> "none"]
    /\ myWrite = [p \in Callers |-> 0]
    /\ result = [p \in Callers |-> [status |-> "none", re |-> 0, ep |-> 0]]
    /\ writes = 0
    /\ delivered = {}
    /\ notifs = 0
    /\ closes = 0
    /\ closeRaised = FALSE
    /\ closeActed = FALSE
    /\ timeouts = 0
    /\ faults = f
    /\ calls = <<>>
    /\ exc = "none"
    /\ excAt = "none"
    /\ op = "none"
    /\ dpc = "idle"
    /\ protocol = "None"
    /\ dfind = "none"
    /\ outcome = NoOutcome
    /\ conn = 0
    /\ nconn = 0
    /\ infoConn = 0
    /\ uattempt = 0
    /\ max_upload_retries = 0
    /\ ulog = <<>>
    /\ usleeps = <<>>
    /\ uploader_calls = <<>>
    /\ dscans = 0
    /\ adverts = <<>>
    /\ eink_devices = <<>>
    /\ find_arg = "None"
    /\ find_ret = [mac_address |-> "None", protocol |-> "None", manufacturer_id |-> 0]
    /\ uopens = 0
    /\ link_attempts = 0
    /\ inbox = <<>>
    /\ bpc = "idle"
    /\ updates = <<>>
    /\ arrived = 0

\* The state after construction; no disconnect call has failed yet.
Init == InitWith(0)

\* The same, for a transport whose disconnect calls end with the link down:
\* the allowance of calls that fail and leave it up starts used up.
InitReliable == InitWith(MaxFaults)

(***************************************************************************)
(* The except clauses of __aenter__ (lines 99-117) for an exception of     *)
(* class e raised by stage `at` of the try body, the transport being in    *)
(* state up/sub when it is raised: _cleanup, then a backoff sleep, or the  *)
(* terminal BLEConnectionError.  `pre` are the transport calls the step    *)
(* issued before the exception, f how many of them left the link up.       *)
(***************************************************************************)
\* The terminal error reporting the index of the last attempt, not their number.
TerminalOffByOne(e) ==
    [type |-> "BLEConnectionError", addr |-> TRUE, attempts |-> attempt, cause |-> e]

TerminalAfterRetries(e) ==
    [type |-> "BLEConnectionError", addr |-> TRUE, attempts |-> max_retries, cause |-> e]

\* The terminal error for an unexpected exception without the device address.
TerminalNoAddress(e) ==
    [type |-> "BLEConnectionError", addr |-> FALSE, attempts |-> NoCount, cause |-> e]

TerminalUnexpected(e) ==
    [type |-> "BLEConnectionError", addr |-> TRUE, attempts |-> NoCount, cause |-> e]

\* A single except clause that retries every exception class.
RetriedAll(e) == TRUE

Retried(e) == e \in RetryExc

ExceptFrom(up, sub, e, at, pre, f, nf) ==
    \E so \in StopOutcome, dc \in DiscOutcome :
        LET c == CleanupOf(up, sub, notification_active, so, dc) IN
        /\ faults + f + c.failed <= MaxFaults
        /\ faults' = faults + f + c.failed
        /\ linkUp' = c.linkUp
        /\ subscribed' = c.subscribed
        /\ notification_active' = c.active
        /\ calls' = pre \o c.calls
        /\ exc' = e
        /\ excAt' = at
        /\ onlyNotFound' = (onlyNotFound /\ nf)
        /\ IF Retried(e)
           THEN IF attempt < max_retries - 1
                THEN /\ pc' = "sleep"
                     /\ sleeps' = Append(sleeps, Backoff(attempt))
                     /\ error' = error
                ELSE /\ pc' = "raising"
                     /\ sleeps' = sleeps
                     /\ error' = TerminalAfterRetries(e)
           ELSE /\ pc' = "raising"
                /\ sleeps' = sleeps
                /\ error' = TerminalUnexpected(e)

Except(e, at, nf) == ExceptFrom(linkUp, subscribed, e, at, <<>>, 0, nf)

\* async with connection: __aenter__ starts its first attempt and awaits the scan.
Open ==
    /\ pc = "idle"
    /\ closes = 0
    /\ \A p \in Callers : spc[p] = "none"
    /\ pc' = "scan"
    /\ calls' = <<>>
    /\ exc' = "none"
    /\ excAt' = "none"
    /\ UNCHANGED <<connVars, linkVars, attempt, error, sleeps, linksMade,
                   onlyNotFound, sendVars, notifs, closeVars, faults>>
    /\ UNCHANGED devVars

\* A retry attempt that links to the device the previous scan found.
PauseDoneNoScan ==
    /\ pc = "pause"
    /\ pc' = "link"
    /\ calls' = <<>>
    /\ exc' = "none"
    /\ excAt' = "none"
    /\ UNCHANGED <<connVars, linkVars, attempt, error, sleeps, linksMade,
                   onlyNotFound, sendVars, notifs, closeVars, faults>>
    /\ UNCHANGED devVars

\* The pause of a retry attempt (await asyncio.sleep(0.5)) is over: scan.
PauseDone ==
    /\ pc = "pause"
    /\ pc' = "scan"
    /\ calls' = <<>>
    /\ exc' = "none"
    /\ excAt' = "none"
    /\ UNCHANGED <<connVars, linkVars, attempt, error, sleeps, linksMade,
                   onlyNotFound, sendVars, notifs, closeVars, faults>>
    /\ UNCHANGED devVars

\* find_device_by_address returned a device: establish_connection is awaited.
ScanFound ==
    /\ pc = "scan"
    /\ pc' = "link"
    /\ calls' = <<>>
    /\ exc' = "none"
    /\ excAt' = "none"
    /\ UNCHANGED <<connVars, linkVars, attempt, error, sleeps, linksMade,
                   onlyNotFound, sendVars, notifs, closeVars, faults>>
    /\ UNCHANGED devVars

\* A last attempt that finds nothing and leaves the loop without raising.
ScanNotFoundFallsOut ==
    /\ pc = "scan"
    /\ IF attempt < max_retries - 1
       THEN /\ pc' = "sleep"
            /\ sleeps' = Append(sleeps, Backoff(attempt))
       ELSE /\ pc' = "returning"
            /\ sleeps' = sleeps
    /\ calls' = <<>>
    /\ exc' = "none"
    /\ excAt' = "none"
    /\ UNCHANGED <<connVars, linkVars, attempt, error, linksMade, onlyNotFound,
                   sendVars, notifs, closeVars, faults>>
    /\ UNCHANGED devVars

\* find_device_by_address returned None (lines 58-64).
ScanNotFound ==
    /\ pc = "scan"
    /\ IF attempt < max_retries - 1
       THEN /\ pc' = "sleep"
            /\ sleeps' = Append(sleeps, Backoff(attempt))
            /\ calls' = <<>>
            /\ exc' = "none"
            /\ excAt' = "none"
            /\ UNCHANGED <<linkUp, subscribed, notification_active, error,
                           onlyNotFound, faults>>
       ELSE Except("BLEConnectionError", "scan", TRUE)
    /\ UNCHANGED <<client, write_char, response_queue, orphans, attempt, linksMade,
                   sendVars, notifs, closeVars>>
    /\ UNCHANGED devVars

\* find_device_by_address raised.
ScanError ==
    /\ pc = "scan"
    /\ \E e \in ScanExc : Except(e, "scan", FALSE)
    /\ UNCHANGED <<client, write_char, response_queue, orphans, attempt, linksMade,
                   sendVars, notifs, closeVars>>
    /\ UNCHANGED devVars

\* A backoff sleep is over: the for loop starts the next attempt, which
\* begins with the pause before its fresh scan (lines 51-54).
SleepDone ==
    /\ pc = "sleep"
    /\ attempt' = attempt + 1
    /\ pc' = "pause"
    /\ sleeps' = Append(sleeps, Pause)
    /\ calls' = <<>>
    /\ exc' = "none"
    /\ excAt' = "none"
    /\ UNCHANGED <<connVars, linkVars, error, linksMade, onlyNotFound, sendVars,
                   notifs, closeVars, faults>>
    /\ UNCHANGED devVars

\* _resolve_characteristic (lines 138-155): whether it resolved, and
\* self.write_char afterwards.
ResolveCharacteristic(charFound) ==
    [ok |-> charFound, write_char |-> IF charFound THEN TRUE ELSE write_char]

\* establish_connection returned a client (lines 68-75); then, without an
\* await in between, the characteristic is resolved or not, and start_notify
\* or disconnect is awaited.
LinkOk ==
    /\ pc = "link"
    /\ \E charFound \in BOOLEAN :
        LET r == ResolveCharacteristic(charFound) IN
        /\ write_char' = r.write_char
        /\ pc' = IF r.ok THEN "subscribe" ELSE "resolve_disc"
    /\ client' = "client"
    /\ linksMade' = linksMade + 1
    /\ orphans' = IF is_connected THEN orphans + 1 ELSE orphans
    /\ linkUp' = TRUE
    /\ subscribed' = FALSE
    /\ calls' = <<>>
    /\ exc' = "none"
    /\ excAt' = "none"
    /\ UNCHANGED <<notification_active, response_queue, attempt, error,
                   sleeps, onlyNotFound, sendVars, notifs, closeVars,
                   faults>>
    /\ UNCHANGED devVars

\* establish_connection raised: self.client keeps its old value.
LinkFail ==
    /\ pc = "link"
    /\ \E e \in LinkExc : Except(e, "link", FALSE)
    /\ UNCHANGED <<client, write_char, response_queue, orphans, attempt, linksMade,
                   sendVars, notifs, closeVars>>
    /\ UNCHANGED devVars

\* An unresolved characteristic reported as a protocol error.
ResolveFailureUnexpected == "BLEProtocolError"

\* raise BLEConnectionError("Could not resolve characteristic ...") (lines 85-87).
ResolveFailure == "BLEConnectionError"

\* The disconnect of an attempt whose characteristic did not resolve ended
\* (lines 79-87): backoff, or BLEConnectionError on the last attempt; a
\* failing disconnect raises into the except clauses.
ResolveDisconnected ==
    /\ pc = "resolve_disc"
    /\ \E dc \in DiscOutcome :
        LET down == dc \in {"ok", "fail_down"}
            up == IF down THEN FALSE ELSE linkUp
            sub == IF down THEN FALSE ELSE subscribed
        IN  IF dc = "ok"
            THEN IF attempt < max_retries - 1
                 THEN /\ pc' = "sleep"
                      /\ sleeps' = Append(sleeps, Backoff(attempt))
                      /\ onlyNotFound' = FALSE
                      /\ linkUp' = up
                      /\ subscribed' = sub
                      /\ calls' = <<"disconnect">>
                      /\ exc' = "none"
                      /\ excAt' = "resolve"
                      /\ UNCHANGED <<notification_active, error, faults>>
                 ELSE ExceptFrom(up, sub, ResolveFailure, "resolve", <<"disconnect">>, 0, FALSE)
            ELSE ExceptFrom(up, sub, "BleakError", "resolve", <<"disconnect">>, Stuck(dc), FALSE)
    /\ UNCHANGED <<client, write_char, response_queue, orphans, attempt, linksMade,
                   sendVars, notifs, closeVars>>
    /\ UNCHANGED devVars

\* start_notify returned (lines 90-91); protocol.initialize_connection is awaited.
SubscribeOk ==
    /\ pc = "subscribe"
    /\ is_connected
    /\ subscribed' = TRUE
    /\ notification_active' = TRUE
    /\ pc' = "handshake"
    /\ calls' = <<>>
    /\ exc' = "none"
    /\ excAt' = "none"
    /\ UNCHANGED <<client, write_char, response_queue, linkUp, orphans,
                   attempt, error, sleeps, linksMade, onlyNotFound, sendVars,
                   notifs, closeVars, faults>>
    /\ UNCHANGED devVars

\* start_notify raised.
SubscribeFail ==
    /\ pc = "subscribe"
    /\ \E e \in NotifyExc : Except(e, "subscribe", FALSE)
    /\ UNCHANGED <<client, write_char, response_queue, orphans, attempt, linksMade,
                   sendVars, notifs, closeVars>>
    /\ UNCHANGED devVars

\* protocol.initialize_connection returned: __aenter__ is about to return
\* self (line 97).
HandshakeOk ==
    /\ pc = "handshake"
    /\ pc' = "returning"
    /\ calls' = <<>>
    /\ exc' = "none"
    /\ excAt' = "none"
    /\ UNCHANGED <<connVars, linkVars, attempt, error, sleeps, linksMade,
                   onlyNotFound, sendVars, notifs, closeVars, faults>>
    /\ UNCHANGED devVars

\* protocol.initialize_connection raised.
HandshakeFail ==
    /\ pc = "handshake"
    /\ \E e \in HandshakeExc : Except(e, "handshake", FALSE)
    /\ UNCHANGED <<client, write_char, response_queue, orphans, attempt, linksMade,
                   sendVars, notifs, closeVars>>
    /\ UNCHANGED devVars

\* __aenter__ hands its result to the caller: self, or the terminal
\* BLEConnectionError.  Its locals, and what the model recorded about the
\* call, end with it.
Return ==
    /\ pc \in {"returning", "raising"}
    /\ pc' = IF pc = "returning" THEN "ready" ELSE "raised"
    /\ attempt' = 0
    /\ error' = NoError
    /\ sleeps' = <<>>
    /\ linksMade' = 0
    /\ onlyNotFound' = TRUE
    /\ calls' = <<>>
    /\ exc' = "none"
    /\ excAt' = "none"
    /\ UNCHANGED <<connVars, linkVars, sendVars, notifs, closeVars,
                   faults>>
    /\ UNCHANGED devVars

\* The task running __aenter__ is cancelled while suspended in an await:
\* CancelledError is a BaseException, which neither except clause (lines 99,
\* 114) catches, so it leaves __aenter__ at once; __aexit__ is not run for a
\* failed __aenter__.
Cancel ==
    /\ pc \in Suspended
    /\ pc' = "cancelled"
    /\ attempt' = 0
    /\ sleeps' = <<>>
    /\ linksMade' = 0
    /\ onlyNotFound' = TRUE
    /\ calls' = <<>>
    /\ exc' = "CancelledError"
    /\ excAt' = pc
    /\ UNCHANGED <<connVars, linkVars, error, sendVars, notifs, closeVars, faults>>
    /\ UNCHANGED devVars

\* The device drops the link (_disconnected_callback, lines 192-194, only logs).
DeviceDrop ==
    /\ linkUp
    /\ linkUp' = FALSE
    /\ subscribed' = FALSE
    /\ UNCHANGED <<connVars, orphans, openVars, sendVars, notifs, closeVars, faults,
                   calls, exc, excAt>>
    /\ UNCHANGED devVars

\* The transport pushes a notification: _notification_callback (lines 157-162)
\* puts it on the queue.  re is the write it answers (0: none), ep the number
\* of writes issued before it was enqueued.  What the device pushes while
\* the handshake runs belongs to the handshake step.
NotificationCallback(data) == Append(response_queue, data)

Notify ==
    /\ subscribed
    /\ pc \notin Running
    /\ Events < MaxEvents
    /\ notifs < MaxNotifs
    /\ \E r \in {0} \cup delivered :
        response_queue' = NotificationCallback([re |-> r, ep |-> writes])
    /\ notifs' = notifs + 1
    /\ UNCHANGED <<client, write_char, notification_active, linkVars, openVars,
                   sendVars, closeVars, faults, calls, exc, excAt>>
    /\ UNCHANGED devVars

\* _write_raw (lines 185-190) up to its await: the guard, then the call of
\* client.write_gatt_char.
WriteRaw ==
    IF ~write_char
    THEN [raised |-> "BLEProtocolError", issued |-> FALSE]
    ELSE [raised |-> "none", issued |-> TRUE]

\* A drain that takes one queued value only (an `if` for the `while`).
DrainedOne(q) == IF q = <<>> THEN q ELSE Tail(q)

\* The pre-write drain of write_command_with_response (lines 167-171).
Drained(q) == <<>>

\* A write_command that empties the queue as well.
DrainedToo(q) == <<>>

\* write_command (lines 181-183) does not touch the queue.
NotDrained(q) == q

NoResult == [status |-> "none", re |-> 0, ep |-> 0]
Raised(e) == [status |-> e, re |-> 0, ep |-> 0]

\* Caller p calls write_command_with_response (withResponse) or write_command:
\* the drain and the write call, up to the await of write_gatt_char.
SendStart(p, withResponse) ==
    /\ pc \notin Running
    /\ spc[p] = "none"
    /\ writes < MaxCmds
    /\ Events < MaxEvents
    /\ response_queue' = IF withResponse THEN Drained(response_queue)
                                         ELSE NotDrained(response_queue)
    /\ sendKind' = [sendKind EXCEPT ![p] = IF withResponse THEN "resp" ELSE "noresp"]
    /\ LET w == WriteRaw IN
       IF w.issued
       THEN /\ writes' = writes + 1
            /\ myWrite' = [myWrite EXCEPT ![p] = writes + 1]
            /\ delivered' = IF is_connected THEN delivered \cup {writes + 1} ELSE delivered
            /\ spc' = [spc EXCEPT ![p] = "writing"]
            /\ result' = [result EXCEPT ![p] = NoResult]
            /\ calls' = <<"write_gatt_char">>
       ELSE /\ result' = [result EXCEPT ![p] = Raised(w.raised)]
            /\ calls' = <<>>
            /\ UNCHANGED <<writes, myWrite, delivered, spc>>
    /\ exc' = "none"
    /\ excAt' = "none"
    /\ UNCHANGED <<client, write_char, notification_active, linkVars, openVars,
                   timeouts, notifs, closeVars, faults>>
    /\ UNCHANGED devVars

\* write_gatt_char returned: write_command returns; write_command_with_response
\* goes on to wait for the queue (line 176).
SendWritten(p) ==
    /\ spc[p] = "writing"
    /\ myWrite[p] \in delivered
    /\ IF sendKind[p] = "resp"
       THEN /\ spc' = [spc EXCEPT ![p] = "waiting"]
            /\ result' = result
       ELSE /\ spc' = [spc EXCEPT ![p] = "none"]
            /\ result' = [result EXCEPT ![p] = [status |-> "ok", re |-> 0, ep |-> 0]]
    /\ calls' = <<>>
    /\ exc' = "none"
    /\ excAt' = "none"
    /\ UNCHANGED <<connVars, linkVars, openVars, sendKind, myWrite, writes,
                   delivered, timeouts, notifs, closeVars, faults>>
    /\ UNCHANGED devVars

\* write_gatt_char raised (the link is down): the writer raises it on.
SendWriteFailed(p) ==
    /\ spc[p] = "writing"
    /\ spc' = [spc EXCEPT ![p] = "none"]
    /\ result' = [result EXCEPT ![p] = Raised("BleakError")]
    /\ calls' = <<>>
    /\ exc' = "none"
    /\ excAt' = "none"
    /\ UNCHANGED <<connVars, linkVars, openVars, sendKind, myWrite, writes,
                   delivered, timeouts, notifs, closeVars, faults>>
    /\ UNCHANGED devVars

\* queue.get() returned the oldest queued notification (lines 176-177).
SendReceive(p) ==
    /\ spc[p] = "waiting"
    /\ response_queue # <<>>
    /\ result' = [result EXCEPT ![p] = [status |-> "ok",
                                         re |-> Head(response_queue).re,
                                         ep |-> Head(response_queue).ep]]
    /\ response_queue' = Tail(response_queue)
    /\ spc' = [spc EXCEPT ![p] = "none"]
    /\ calls' = <<>>
    /\ exc' = "none"
    /\ excAt' = "none"
    /\ UNCHANGED <<client, write_char, notification_active, linkVars, openVars,
                   sendKind, myWrite, writes, delivered, timeouts, notifs,
                   closeVars, faults>>
    /\ UNCHANGED devVars

\* A timeout path that gives the subscription up.
AfterTimeoutTornDown ==
    [client |-> client, write_char |-> write_char, active |-> FALSE,
     linkUp |-> linkUp, subscribed |-> FALSE]

\* What the timeout path of write_command_with_response (lines 178-179)
\* leaves of the fields of the Connection and of its link.
AfterTimeout ==
    [client |-> client, write_char |-> write_char, active |-> notification_active,
     linkUp |-> linkUp, subscribed |-> subscribed]

\* A timeout path that writes the command once more.
RewrittenOnTimeout(w) == w + 1

\* The write counter after the timeout path (lines 178-179), which only
\* raises: no further write.
WritesAfterTimeout(w) == w

\* The deadline passed with the queue empty: BLETimeoutError.
SendTimeout(p) ==
    /\ spc[p] = "waiting"
    /\ response_queue = <<>>
    /\ result' = [result EXCEPT ![p] = Raised("BLETimeoutError")]
    /\ timeouts' = timeouts + 1
    /\ spc' = [spc EXCEPT ![p] = "none"]
    /\ client' = AfterTimeout.client
    /\ write_char' = AfterTimeout.write_char
    /\ notification_active' = AfterTimeout.active
    /\ linkUp' = AfterTimeout.linkUp
    /\ subscribed' = AfterTimeout.subscribed
    /\ calls' = <<>>
    /\ exc' = "none"
    /\ excAt' = "none"
    /\ writes' = WritesAfterTimeout(writes)
    /\ UNCHANGED <<response_queue, orphans, openVars, sendKind, myWrite,
                   delivered, notifs, closeVars, faults>>
    /\ UNCHANGED devVars

\* The caller closes the Connection: __aexit__ (lines 119-121) runs _cleanup.
Close ==
    /\ pc \notin Running
    /\ \A p \in Callers : spc[p] = "none"
    /\ closes < MaxCloses
    /\ Events < MaxEvents
    /\ \E so \in StopOutcome, dc \in DiscOutcome :
        LET c == CleanupResult(so, dc) IN
        /\ faults + c.failed <= MaxFaults
        /\ faults' = faults + c.failed
        /\ linkUp' = c.linkUp
        /\ subscribed' = c.subscribed
        /\ notification_active' = c.active
        /\ calls' = c.calls
        /\ closeRaised' = (closeRaised \/ c.raises)
        /\ closeActed' = (closeActed \/ c.calls # <<>>)
    /\ closes' = closes + 1
    /\ exc' = "none"
    /\ excAt' = "none"
    /\ UNCHANGED <<client, write_char, response_queue, orphans, openVars,
                   sendVars, notifs>>
    /\ UNCHANGED devVars

\* One caller uses the Connection, one call at a time.
Caller == 1

Next ==
    \/ Open
    \/ PauseDone
    \/ ScanFound
    \/ ScanNotFound
    \/ ScanError
    \/ SleepDone
    \/ LinkOk
    \/ LinkFail
    \/ ResolveDisconnected
    \/ SubscribeOk
    \/ SubscribeFail
    \/ HandshakeOk
    \/ HandshakeFail
    \/ Return
    \/ Cancel
    \/ DeviceDrop
    \/ Notify
    \/ SendStart(Caller, TRUE)
    \/ SendStart(Caller, FALSE)
    \/ SendWritten(Caller)
    \/ SendWriteFailed(Caller)
    \/ SendReceive(Caller)
    \/ SendTimeout(Caller)
    \/ Close

Spec == Init /\ [][Next]_vars

(***************************************************************************)
(* Discovery (eink_cli/ble/discovery.py).                                  *)
(***************************************************************************)
\* The table with its two protocols exchanged.
KnownSwapped == (4919 :> "oepl") @@ (9286 :> "atc")

\* KNOWN_MANUFACTURER_IDS (lines 15-18): 0x1337 and 0x2446.
KNOWN_MANUFACTURER_IDS == (4919 :> "atc") @@ (9286 :> "oepl")

\* The order in which the for loop of _parse_device walks the table.
KnownOrder == <<4919, 9286>>

\* Manufacturer codes an advertisement may carry: the two known ones and a
\* foreign one.
MfgCodes == {4919, 9286, 76}

\* Addresses as the transport reports them, and str.upper() on them.
AdvAddresses == {"aa:01", "AA:01", "BB:02"}

\* Addresses as a caller may write them: lower case, upper case, and upper
\* case with a dash for the colon.
QueryAddresses == {"aa:01", "AA:01", "AA-01", "BB:02"}

upper(a) ==
    CASE a = "aa:01" -> "AA:01"
      [] a = "aa-01" -> "AA-01"
      [] OTHER -> a

Adverts == [address : AdvAddresses, manufacturer_data : SUBSET MfgCodes]

\* BleakScanner.discover(return_adv=True) returns a dict keyed by address:
\* one entry per address, in observation order.
Scans ==
    UNION {{[i \in 1..n |-> [address |-> a[i], manufacturer_data |-> m[i]]] :
               a \in {x \in [1..n -> AdvAddresses] :
                         \A i, j \in 1..n : x[i] = x[j] => i = j},
               m \in [1..n -> SUBSET MfgCodes]} : n \in 0..MaxAdverts}

NoDevice == [mac_address |-> "None", protocol |-> "None", manufacturer_id |-> 0]

\* _parse_device (lines 52-77): the first table entry found in the
\* advertisement's manufacturer data, or None.
parse_device(ad) ==
    LET hits == {i \in 1..Len(KnownOrder) : KnownOrder[i] \in ad.manufacturer_data}
    IN  IF hits = {}
        THEN NoDevice
        ELSE LET first == CHOOSE i \in hits : \A k \in hits : i <= k
                 mfg_id == KnownOrder[first]
             IN  [mac_address |-> upper(ad.address),
                  protocol |-> KNOWN_MANUFACTURER_IDS[mfg_id],
                  manufacturer_id |-> mfg_id]

\* discover_devices (lines 36-46): the parsed advertisements that are not None.
discover_devices(ads) ==
    SelectSeq([i \in 1..Len(ads) |-> parse_device(ads[i])],
              LAMBDA d : d # NoDevice)

\* A search that keeps the last match.
find_last_by_mac(ads, mac_address) ==
    LET devices == discover_devices(ads)
        hits == {i \in 1..Len(devices) : devices[i].mac_address = upper(mac_address)}
    IN  IF hits = {}
        THEN NoDevice
        ELSE devices[CHOOSE i \in hits : \A k \in hits : i >= k]

\* find_device_by_mac (lines 90-101): the first discovered device with the
\* upper-cased address, or None.
find_device_by_mac(ads, mac_address) ==
    LET devices == discover_devices(ads)
        hits == {i \in 1..Len(devices) : devices[i].mac_address = upper(mac_address)}
    IN  IF hits = {}
        THEN NoDevice
        ELSE devices[CHOOSE i \in hits : \A k \in hits : i <= k]

Raise(e, c) == [kind |-> "raise", exc |-> e, cause |-> c]

\* DeviceManager.discover_devices (device.py lines 20-29) is called: the scan
\* (BleakScanner.discover) is awaited.
DiscoverCall ==
    /\ op = "none"
    /\ dpc = "idle"
    /\ pc = "idle"
    /\ op' = "discover"
    /\ dpc' = "scanning"
    /\ dscans' = dscans + 1
    /\ UNCHANGED <<connVars, linkVars, openVars, sendVars, notifs, closeVars, faults,
                   calls, exc, excAt, outcome, connectVars, uploadVars, scanVars>>
    /\ UNCHANGED orchVars

\* The scan returned: the advertisements are parsed and the list returned.
Discovered ==
    /\ op = "discover"
    /\ dpc = "scanning"
    /\ \E ads \in Scans :
        /\ adverts' = ads
        /\ eink_devices' = discover_devices(ads)
    /\ outcome' = [kind |-> "list", exc |-> "none", cause |-> "none"]
    /\ dpc' = "returned"
    /\ UNCHANGED <<connVars, linkVars, openVars, sendVars, notifs, closeVars, faults,
                   calls, exc, excAt, op, dscans, connectVars, uploadVars,
                   find_arg, find_ret>>
    /\ UNCHANGED orchVars

\* A failing scan answered with an empty list.
DiscoveryFailedEmpty(e) == [kind |-> "list", exc |-> "none", cause |-> "none"]

\* `except Exception as e: raise BLEError(...)` (lines 48-49).
DiscoveryFailed(e) == Raise("BLEError", e)

\* The scan raised: discover_devices raises BLEError (lines 48-49).
DiscoverFailed ==
    /\ op = "discover"
    /\ dpc = "scanning"
    /\ outcome' = DiscoveryFailed("BleakError")
    /\ dpc' = "raised"
    /\ UNCHANGED <<connVars, linkVars, openVars, sendVars, notifs, closeVars, faults,
                   calls, exc, excAt, op, dscans, connectVars, uploadVars, scanVars>>
    /\ UNCHANGED orchVars

\* find_device_by_mac(m) is called (lines 90-93): the address is upper-cased
\* and discover_devices awaited.
FindCall(m) ==
    /\ op = "none"
    /\ dpc = "idle"
    /\ pc = "idle"
    /\ op' = "find"
    /\ dpc' = "scanning"
    /\ find_arg' = m
    /\ dscans' = dscans + 1
    /\ UNCHANGED <<connVars, linkVars, openVars, sendVars, notifs, closeVars, faults,
                   calls, exc, excAt, outcome, connectVars, uploadVars, adverts,
                   eink_devices, find_ret>>
    /\ UNCHANGED orchVars

\* discover_devices returned its list: the linear search (lines 95-101).
FindReturned ==
    /\ op = "find"
    /\ dpc = "scanning"
    /\ \E ads \in Scans :
        /\ adverts' = ads
        /\ eink_devices' = discover_devices(ads)
        /\ find_ret' = find_device_by_mac(ads, find_arg)
    /\ outcome' = [kind |-> "device", exc |-> "none", cause |-> "none"]
    /\ dpc' = "returned"
    /\ UNCHANGED <<connVars, linkVars, openVars, sendVars, notifs, closeVars, faults,
                   calls, exc, excAt, op, dscans, connectVars, uploadVars, find_arg>>
    /\ UNCHANGED orchVars

\* discover_devices raised BLEError: find_device_by_mac has no handler for it.
FindFailed ==
    /\ op = "find"
    /\ dpc = "scanning"
    /\ outcome' = DiscoveryFailed("BleakError")
    /\ dpc' = "raised"
    /\ UNCHANGED <<connVars, linkVars, openVars, sendVars, notifs, closeVars, faults,
                   calls, exc, excAt, op, dscans, connectVars, uploadVars, scanVars>>
    /\ UNCHANGED orchVars

NextDiscovery ==
    \/ DiscoverCall
    \/ Discovered
    \/ DiscoverFailed
    \/ \E m \in QueryAddresses : FindCall(m)
    \/ FindReturned
    \/ FindFailed

SpecDiscovery == Init /\ [][NextDiscovery]_vars

(***************************************************************************)
(* DeviceManager (eink_cli/device.py).  __aenter__ is taken by its         *)
(* outcomes: it returns with the link up, or raises BLEConnectionError     *)
(* after its own cleanup.                                                  *)
(***************************************************************************)
\* The address connect_device is called with.
Target == "aa:01"

\* Values of the `protocol` argument: None, the empty string, the two
\* registered names and an unregistered one.
ProtocolArgs == {"None", "", "atc", "oepl", "zigbee"}

\* A truth test that takes every value as absent.
TruthyNever(p) == FALSE

\* `if not protocol` (line 55): None and the empty string are falsy.
Truthy(p) == p \notin {"None", ""}

\* The names get_protocol_by_name knows.
Registered == {"atc", "oepl"}

\* A lookup that answers an absent device with a default protocol.
DetectedOrDefault(d) == IF d = NoDevice THEN "atc" ELSE d.protocol

\* Lines 57-59: the protocol of the device found, None if there is none.
Detected(d) == IF d = NoDevice THEN "None" ELSE d.protocol

\* An except clause that lets the exception through unchanged.
PassedThrough(e) == e

\* `except Exception as e: raise BLEConnectionError(...)` (lines 100-101).
ConnectWrapped(e) == "BLEConnectionError"

\* What interrogate_device may raise: its own errors and those of the writers.
InterrogateExc == {"BLEProtocolError", "BLETimeoutError", "BleakError"}

\* An `async with` whose exit does nothing.
NoExit(so, dc) ==
    [linkUp |-> linkUp, subscribed |-> subscribed, active |-> notification_active,
     calls |-> <<>>, failed |-> 0, raises |-> FALSE]

\* Leaving `async with connection:` (lines 77 and 134), by return or by
\* exception: __aexit__ runs _cleanup.
AsyncWithExit(so, dc) == CleanupResult(so, dc)

\* The fields and the link as they are (nothing was cleaned up).
Untouched ==
    [linkUp |-> linkUp, subscribed |-> subscribed, active |-> notification_active,
     calls |-> <<>>, failed |-> 0, raises |-> FALSE]

\* The Connection and its link after a cleanup c.
Cleaned(c) ==
    /\ faults + c.failed <= MaxFaults
    /\ faults' = faults + c.failed
    /\ linkUp' = c.linkUp
    /\ subscribed' = c.subscribed
    /\ notification_active' = c.active
    /\ UNCHANGED <<client, write_char, response_queue, orphans>>

\* An id that is the one of the Connection stored in the DeviceInfo.
ReusedConnectionId == IF infoConn # 0 THEN infoConn ELSE nconn + 1

\* The id of a newly constructed BLEConnection.
NewConnectionId == nconn + 1

\* BLEConnection(...) (lines 69-73 and 128-132) after a cleanup c of the
\* Connection used before: a new object with no client; a link the old one
\* left up stays up, out of reach.
NewConnection(c) ==
    /\ faults + c.failed <= MaxFaults
    /\ faults' = faults + c.failed
    /\ conn' = NewConnectionId
    /\ nconn' = nconn + 1
    /\ client' = "None"
    /\ write_char' = FALSE
    /\ notification_active' = FALSE
    /\ response_queue' = <<>>
    /\ linkUp' = FALSE
    /\ subscribed' = FALSE
    /\ orphans' = orphans + (IF c.linkUp THEN 1 ELSE 0)

\* __aenter__ returned: the link is up, the characteristic resolved and the
\* notifications enabled (connection.py lines 68-97).  An earlier attempt of
\* it may have left a link up behind a disconnect that failed.
OpenedOk ==
    /\ client' = "client"
    /\ write_char' = TRUE
    /\ notification_active' = TRUE
    /\ linkUp' = TRUE
    /\ subscribed' = TRUE
    /\ \E left \in {0, 1} :
        /\ faults + left <= MaxFaults
        /\ faults' = faults + left
        /\ orphans' = orphans + left
    /\ UNCHANGED response_queue

\* The states __aenter__ leaves when it raises (connection.py lines 99-117):
\* never linked; linked and cleaned up, with or without a resolved
\* characteristic; linked with a disconnect that failed and left the link up.
\* The flag stays set when the device dropped the link before the cleanup.
OpenEnds ==
    {[client |-> "None", write_char |-> FALSE, linkUp |-> FALSE, subscribed |-> FALSE, failed |-> 0],
     [client |-> "client", write_char |-> FALSE, linkUp |-> FALSE, subscribed |-> FALSE, failed |-> 0],
     [client |-> "client", write_char |-> TRUE, linkUp |-> FALSE, subscribed |-> FALSE, failed |-> 0],
     [client |-> "client", write_char |-> TRUE, linkUp |-> TRUE, subscribed |-> FALSE, failed |-> 1],
     [client |-> "client", write_char |-> TRUE, linkUp |-> TRUE, subscribed |-> TRUE, failed |-> 1]}

OpenRaised ==
    \E x \in OpenEnds :
        /\ faults + x.failed <= MaxFaults
        /\ faults' = faults + x.failed
        /\ client' = x.client
        /\ write_char' = x.write_char
        /\ \E act \in BOOLEAN :
            /\ act => (x.write_char /\ ~x.linkUp)
            /\ notification_active' = act
        /\ linkUp' = x.linkUp
        /\ subscribed' = x.subscribed
        /\ UNCHANGED <<response_queue, orphans>>

\* Lines 62-77 of connect_device for protocol name p: the handler lookup,
\* then the new BLEConnection whose __aenter__ is awaited.
ResolveAndOpen(p) ==
    IF p \in Registered
    THEN /\ NewConnection(Untouched)
         /\ dpc' = "open"
         /\ outcome' = outcome
    ELSE /\ dpc' = "raised"
         /\ outcome' = Raise("UnsupportedProtocolError", "UnsupportedProtocolError")
         /\ UNCHANGED <<connVars, linkVars, faults, conn, nconn>>

\* connect_device(Target, p) is called (lines 51-77): without a protocol the
\* discovery scan is awaited, with one the handler is looked up.
ConnectCall(p) ==
    /\ op = "none"
    /\ dpc = "idle"
    /\ pc = "idle"
    /\ op' = "connect"
    /\ protocol' = p
    /\ IF Truthy(p)
       THEN /\ ResolveAndOpen(p)
            /\ dscans' = dscans
       ELSE /\ dpc' = "find"
            /\ dscans' = dscans + 1
            /\ UNCHANGED <<connVars, linkVars, faults, conn, nconn, outcome>>
    /\ UNCHANGED <<openVars, sendVars, notifs, closeVars, calls, exc, excAt,
                   dfind, infoConn, uploadVars, scanVars>>
    /\ UNCHANGED orchVars

\* find_device_by_mac returned (lines 56-60).
ConnectFound ==
    /\ op = "connect"
    /\ dpc = "find"
    /\ \E ads \in Scans :
        LET d == find_device_by_mac(ads, upper(Target))
            p == Detected(d)
        IN  /\ dfind' = IF d = NoDevice THEN "no_match" ELSE "match"
            /\ IF p = "None"
               THEN /\ dpc' = "raised"
                    /\ outcome' = Raise("BLEConnectionError", "not found during discovery")
                    /\ protocol' = protocol
                    /\ UNCHANGED <<connVars, linkVars, faults, conn, nconn>>
               ELSE /\ protocol' = p
                    /\ ResolveAndOpen(p)
    /\ UNCHANGED <<openVars, sendVars, notifs, closeVars, calls, exc, excAt,
                   op, dscans, infoConn, uploadVars, scanVars>>
    /\ UNCHANGED orchVars

\* The scan of find_device_by_mac raised: the BLEError of discover_devices
\* leaves connect_device as it is (line 56 is outside the try).
ConnectScanFailed ==
    /\ op = "connect"
    /\ dpc = "find"
    /\ dfind' = "failed"
    /\ dpc' = "raised"
    /\ outcome' = DiscoveryFailed("BleakError")
    /\ UNCHANGED <<connVars, linkVars, faults, openVars, sendVars, notifs, closeVars,
                   calls, exc, excAt, op, dscans, protocol, conn, nconn, infoConn,
                   uploadVars, scanVars>>
    /\ UNCHANGED orchVars

\* __aenter__ returned: interrogate_device is awaited (lines 77-79).
ConnectOpenOk ==
    /\ op = "connect"
    /\ dpc = "open"
    /\ OpenedOk
    /\ dpc' = "interrogate"
    /\ UNCHANGED <<openVars, sendVars, notifs, closeVars, calls, exc, excAt,
                   op, outcome, dscans, connectVars, uploadVars, scanVars>>
    /\ UNCHANGED orchVars

\* __aenter__ raised: the body and __aexit__ are skipped, line 100 wraps it.
ConnectOpenFailed ==
    /\ op = "connect"
    /\ dpc = "open"
    /\ OpenRaised
    /\ dpc' = "raised"
    /\ outcome' = Raise(ConnectWrapped("BLEConnectionError"), "BLEConnectionError")
    /\ UNCHANGED <<openVars, sendVars, notifs, closeVars, calls, exc, excAt,
                   op, dscans, connectVars, uploadVars, scanVars>>
    /\ UNCHANGED orchVars

\* interrogate_device returned: device_info is built and returned through
\* __aexit__ (lines 79-98).
InterrogateOk ==
    /\ op = "connect"
    /\ dpc = "interrogate"
    /\ \E so \in StopOutcome, dc \in DiscOutcome : Cleaned(AsyncWithExit(so, dc))
    /\ infoConn' = conn
    /\ dpc' = "returned"
    /\ outcome' = [kind |-> "info", exc |-> "none", cause |-> "none"]
    /\ UNCHANGED <<openVars, sendVars, notifs, closeVars, calls, exc, excAt,
                   op, dscans, protocol, dfind, conn, nconn, uploadVars, scanVars>>
    /\ UNCHANGED orchVars

\* interrogate_device raised: __aexit__ runs, line 100 wraps the exception.
InterrogateFailed ==
    /\ op = "connect"
    /\ dpc = "interrogate"
    /\ \E so \in StopOutcome, dc \in DiscOutcome : Cleaned(AsyncWithExit(so, dc))
    /\ \E e \in InterrogateExc : outcome' = Raise(ConnectWrapped(e), e)
    /\ dpc' = "raised"
    /\ UNCHANGED <<openVars, sendVars, notifs, closeVars, calls, exc, excAt,
                   op, dscans, connectVars, uploadVars, scanVars>>
    /\ UNCHANGED orchVars

\* A failure path that raises once the attempts are used up.
RaisesWhenExhausted(a) == IF a < max_upload_retries - 1 THEN "sleep" ELSE "raise"

\* A loop that sleeps after every failed attempt, the last one included.
SleepsAlways(a) == "sleep"

\* What upload_image does after a failed attempt a (lines 165-171 and
\* 174-183): sleep and go on, or return False.
AfterFailedAttempt(a) == IF a < max_upload_retries - 1 THEN "sleep" ELSE "false"

\* delay = base_delay * (attempt + 1) (lines 166 and 175).
UploadDelay(a) == upload_base_delay * (a + 1)

Returned(v) == [kind |-> v, exc |-> "none", cause |-> "none"]

\* The except clause of upload_image (lines 173-183), after attempt
\* uattempt ended with `res` on a link now up or not: the sleep is awaited,
\* or False is returned.
AttemptFailed(res, up) ==
    /\ ulog' = Append(ulog, [conn |-> conn, result |-> res])
    /\ IF AfterFailedAttempt(uattempt) = "sleep"
       THEN /\ dpc' = "up_sleep"
            /\ usleeps' = Append(usleeps, [dur |-> UploadDelay(uattempt), link |-> up])
            /\ outcome' = outcome
       ELSE /\ dpc' = "returned"
            /\ usleeps' = usleeps
            /\ outcome' = IF AfterFailedAttempt(uattempt) = "false"
                           THEN Returned("false")
                           ELSE Raise("Exception", res)

\* upload_image(image_data, device_info, n) is called with the DeviceInfo
\* connect_device returned (lines 113-134): the first attempt constructs its
\* Connection and awaits __aenter__; with n = 0 the loop is skipped (line 185).
UploadCall(n) ==
    /\ op = "connect"
    /\ dpc = "returned"
    /\ op' = "upload"
    /\ max_upload_retries' = n
    /\ uattempt' = 0
    /\ ulog' = <<>>
    /\ usleeps' = <<>>
    /\ uploader_calls' = <<>>
    /\ IF n = 0
       THEN /\ dpc' = "returned"
            /\ outcome' = Returned("false")
            /\ UNCHANGED <<connVars, linkVars, faults, conn, nconn>>
       ELSE /\ NewConnection(Untouched)
            /\ dpc' = "up_open"
            /\ outcome' = NoOutcome
    /\ UNCHANGED <<openVars, sendVars, notifs, closeVars, calls, exc, excAt,
                   dscans, protocol, dfind, infoConn, scanVars>>
    /\ UNCHANGED orchVars

\* A choice that takes the block-based path whatever the protocol.
UploaderAlwaysBlock(p) == "upload_image"

\* `if protocol == 'oepl'` (lines 150-159): the method of BLEImageUploader
\* that is awaited.
Uploader(p) == IF p = "oepl" THEN "upload_direct_write" ELSE "upload_image"

\* __aenter__ returned: the uploader is awaited (lines 134-159).
UploadOpenOk ==
    /\ op = "upload"
    /\ dpc = "up_open"
    /\ OpenedOk
    /\ uploader_calls' = Append(uploader_calls,
                                [attempt |-> uattempt, method |-> Uploader(protocol)])
    /\ dpc' = "up_transfer"
    /\ UNCHANGED <<openVars, sendVars, notifs, closeVars, calls, exc, excAt,
                   op, outcome, dscans, connectVars, uattempt, max_upload_retries,
                   ulog, usleeps, scanVars>>
    /\ UNCHANGED orchVars

\* __aenter__ raised: the except clause (line 173).
UploadOpenFailed ==
    /\ op = "upload"
    /\ dpc = "up_open"
    /\ OpenRaised
    /\ AttemptFailed("open_failed", linkUp')
    /\ UNCHANGED <<openVars, sendVars, notifs, closeVars, calls, exc, excAt,
                   op, dscans, connectVars, uattempt, max_upload_retries,
                   uploader_calls, scanVars>>
    /\ UNCHANGED orchVars

\* A success that is logged but does not end the loop.
TransferOkGoesOn ==
    /\ op = "upload"
    /\ dpc = "up_transfer"
    /\ \E so \in StopOutcome, dc \in DiscOutcome : Cleaned(AsyncWithExit(so, dc))
    /\ ulog' = Append(ulog, [conn |-> conn, result |-> "ok"])
    /\ IF uattempt < max_upload_retries - 1
       THEN /\ dpc' = "up_sleep"
            /\ usleeps' = Append(usleeps, [dur |-> UploadDelay(uattempt), link |-> linkUp'])
            /\ outcome' = outcome
       ELSE /\ dpc' = "returned"
            /\ usleeps' = usleeps
            /\ outcome' = Returned("true")
    /\ UNCHANGED <<openVars, sendVars, notifs, closeVars, calls, exc, excAt,
                   op, dscans, connectVars, uattempt, max_upload_retries,
                   uploader_calls, scanVars>>
    /\ UNCHANGED orchVars

\* The uploader returned True: `return True` leaves the with block (lines 161-163).
TransferOk ==
    /\ op = "upload"
    /\ dpc = "up_transfer"
    /\ \E so \in StopOutcome, dc \in DiscOutcome : Cleaned(AsyncWithExit(so, dc))
    /\ ulog' = Append(ulog, [conn |-> conn, result |-> "ok"])
    /\ dpc' = "returned"
    /\ outcome' = Returned("true")
    /\ UNCHANGED <<openVars, sendVars, notifs, closeVars, calls, exc, excAt,
                   op, dscans, connectVars, uattempt, max_upload_retries, usleeps,
                   uploader_calls, scanVars>>
    /\ UNCHANGED orchVars

\* The uploader returned False (lines 164-171): on an attempt that is not the
\* last the sleep is awaited inside the with block; on the last one
\* `return False` leaves it.
TransferFalse ==
    /\ op = "upload"
    /\ dpc = "up_transfer"
    /\ ulog' = Append(ulog, [conn |-> conn, result |-> "false"])
    /\ IF AfterFailedAttempt(uattempt) = "sleep"
       THEN /\ dpc' = "up_sleep_in"
            /\ usleeps' = Append(usleeps, [dur |-> UploadDelay(uattempt), link |-> linkUp])
            /\ outcome' = outcome
            /\ UNCHANGED <<connVars, linkVars, faults>>
       ELSE /\ \E so \in StopOutcome, dc \in DiscOutcome : Cleaned(AsyncWithExit(so, dc))
            /\ dpc' = "returned"
            /\ usleeps' = usleeps
            /\ outcome' = Returned("false")
    /\ UNCHANGED <<openVars, sendVars, notifs, closeVars, calls, exc, excAt,
                   op, dscans, connectVars, uattempt, max_upload_retries,
                   uploader_calls, scanVars>>
    /\ UNCHANGED orchVars

\* The uploader raised: the exception leaves the with block through
\* __aexit__ and is caught by line 173.
TransferRaised ==
    /\ op = "upload"
    /\ dpc = "up_transfer"
    /\ \E so \in StopOutcome, dc \in DiscOutcome : Cleaned(AsyncWithExit(so, dc))
    /\ AttemptFailed("raised", linkUp')
    /\ UNCHANGED <<openVars, sendVars, notifs, closeVars, calls, exc, excAt,
                   op, dscans, connectVars, uattempt, max_upload_retries,
                   uploader_calls, scanVars>>
    /\ UNCHANGED orchVars

\* The sleep of the except clause is over: the next attempt constructs its
\* Connection and awaits __aenter__.
UploadSleepDone ==
    /\ op = "upload"
    /\ dpc = "up_sleep"
    /\ uattempt' = uattempt + 1
    /\ NewConnection(Untouched)
    /\ dpc' = "up_open"
    /\ UNCHANGED <<openVars, sendVars, notifs, closeVars, calls, exc, excAt,
                   op, outcome, dscans, protocol, dfind, infoConn,
                   max_upload_retries, ulog, usleeps, uploader_calls, scanVars>>
    /\ UNCHANGED orchVars

\* The sleep awaited inside the with block is over: the block is left
\* through __aexit__, then the next attempt starts.
UploadSleepInDone ==
    /\ op = "upload"
    /\ dpc = "up_sleep_in"
    /\ uattempt' = uattempt + 1
    /\ \E so \in StopOutcome, dc \in DiscOutcome : NewConnection(AsyncWithExit(so, dc))
    /\ dpc' = "up_open"
    /\ UNCHANGED <<openVars, sendVars, notifs, closeVars, calls, exc, excAt,
                   op, outcome, dscans, protocol, dfind, infoConn,
                   max_upload_retries, ulog, usleeps, uploader_calls, scanVars>>
    /\ UNCHANGED orchVars

NextDevice ==
    \/ \E p \in ProtocolArgs : ConnectCall(p)
    \/ ConnectFound
    \/ ConnectScanFailed
    \/ ConnectOpenOk
    \/ ConnectOpenFailed
    \/ InterrogateOk
    \/ InterrogateFailed
    \/ \E n \in 0..MaxUploadRetries : UploadCall(n)
    \/ UploadOpenOk
    \/ UploadOpenFailed
    \/ TransferOk
    \/ TransferFalse
    \/ TransferRaised
    \/ UploadSleepDone
    \/ UploadSleepInDone
    \/ DeviceDrop

SpecDevice == Init /\ [][NextDevice]_vars

(***************************************************************************)
(* upload_image with the __aenter__ of each attempt run step by step: the  *)
(* loop of __aenter__ nested in the loop of upload_image.                  *)
(***************************************************************************)
\* `async with connection:` (device.py line 134) calls __aenter__ on the
\* Connection the attempt has just constructed.
UploadOpen ==
    /\ op = "upload"
    /\ dpc = "up_open"
    /\ Open

\* An attempt counter kept from one __aenter__ call to the next.
EnterEndsKeepsCount ==
    /\ pc' = "idle"
    /\ attempt' = attempt
    /\ error' = NoError
    /\ sleeps' = <<>>
    /\ linksMade' = 0
    /\ onlyNotFound' = TRUE
    /\ calls' = <<>>
    /\ exc' = "none"
    /\ excAt' = "none"
    /\ uopens' = uopens + 1
    /\ link_attempts' = link_attempts + attempt + 1

\* The locals of an __aenter__ call end with it (as in Return); the task is
\* no longer inside __aenter__.
EnterEnds ==
    /\ pc' = "idle"
    /\ attempt' = 0
    /\ error' = NoError
    /\ sleeps' = <<>>
    /\ linksMade' = 0
    /\ onlyNotFound' = TRUE
    /\ calls' = <<>>
    /\ exc' = "none"
    /\ excAt' = "none"
    /\ uopens' = uopens + 1
    /\ link_attempts' = link_attempts + attempt + 1

\* __aenter__ returns self to upload_image: the uploader is awaited
\* (connection.py line 97, device.py lines 134-159).
UploadEntered ==
    /\ op = "upload"
    /\ dpc = "up_open"
    /\ pc = "returning"
    /\ EnterEnds
    /\ uploader_calls' = Append(uploader_calls,
                                [attempt |-> uattempt, method |-> Uploader(protocol)])
    /\ dpc' = "up_transfer"
    /\ UNCHANGED <<connVars, linkVars, sendVars, notifs, closeVars, faults,
                   op, outcome, dscans, connectVars, uattempt, max_upload_retries,
                   ulog, usleeps, scanVars, inbox, bpc, updates, arrived>>

\* __aenter__ raises its terminal BLEConnectionError into upload_image: the
\* except clause (device.py line 173).
UploadEnterRaised ==
    /\ op = "upload"
    /\ dpc = "up_open"
    /\ pc = "raising"
    /\ EnterEnds
    /\ AttemptFailed("open_failed", linkUp)
    /\ UNCHANGED <<connVars, linkVars, sendVars, notifs, closeVars, faults,
                   op, dscans, connectVars, uattempt, max_upload_retries,
                   uploader_calls, scanVars, inbox, bpc, updates, arrived>>

\* The tag of these runs is named with its protocol, so connect_device opens
\* its Connection without a scan (device.py lines 52-54).
NestedProtocols == {"atc"}

NextUpload ==
    \/ \E p \in NestedProtocols : ConnectCall(p)
    \/ ConnectOpenOk
    \/ ConnectOpenFailed
    \/ InterrogateOk
    \/ InterrogateFailed
    \/ \E n \in 0..MaxNestedRetries : UploadCall(n)
    \/ UploadOpen
    \/ PauseDone
    \/ ScanFound
    \/ ScanNotFound
    \/ ScanError
    \/ SleepDone
    \/ LinkOk
    \/ LinkFail
    \/ ResolveDisconnected
    \/ SubscribeOk
    \/ SubscribeFail
    \/ HandshakeOk
    \/ HandshakeFail
    \/ UploadEntered
    \/ UploadEnterRaised
    \/ TransferOk
    \/ TransferFalse
    \/ TransferRaised
    \/ UploadSleepDone
    \/ UploadSleepInDone

SpecUpload == InitReliable /\ [][NextUpload]_vars

\* Every await of upload_image that can complete does complete.
SpecUploadFair == SpecUpload /\ WF_vars(NextUpload)

(***************************************************************************)
(* The MQTT bridge (mqtt_controller.py): messages arrive from the broker   *)
(* at any time; loop_forever hands them one by one to _on_message, which   *)
(* runs _send_to_device to its end with asyncio.run.                       *)
(***************************************************************************)
\* Payloads of the trigger messages: a JSON object, a JSON array, and a text
\* that is not JSON.
Payloads == {"{\"temp\": 21}", "[21]", "{temp: 21"}

\* json.loads(payload) (line 135): the type of the value, or the exception.
json_loads(p) ==
    CASE p = "{\"temp\": 21}" -> "dict"
      [] p = "[21]" -> "list"
      [] OTHER -> "JSONDecodeError"

\* config['device'].get('protocol', 'auto') (line 82): left out, or a name.
ConfigProtocols == {"auto", "atc"}

\* `protocol if protocol != 'auto' else None` (line 90).
BridgeProtocol(c) == IF c = "auto" THEN "None" ELSE c

\* Callbacks started without waiting for the one that is running.
DispatchedAtOnce == TRUE

\* loop_forever (line 191) calls _on_message from its own loop, and
\* asyncio.run (line 148) returns only when _send_to_device is over: the next
\* message is handed over when the handler of the previous one has returned.
Dispatched == bpc = "idle"

\* What _send_to_device returns (lines 105-114): True when upload_image
\* returned a truthy value, False otherwise and on every exception.
SendResult(o) == IF o.kind = "true" THEN "true" ELSE "false"

\* The broker delivers a message; it waits in the client until the loop
\* hands it to _on_message.
Arrive(p) ==
    /\ arrived < MaxMessages
    /\ arrived' = arrived + 1
    /\ inbox' = Append(inbox, [payload |-> p, busy |-> bpc # "idle"])
    /\ UNCHANGED <<connVars, linkVars, openVars, sendVars, notifs, closeVars, faults,
                   calls, exc, excAt, op, dpc, outcome, dscans, connectVars,
                   uploadVars, scanVars, uopens, link_attempts, bpc, updates>>

\* The handler is over: the DeviceManager with the count of its scans, its
\* DeviceInfo and the last Connection object are dropped; a link that
\* Connection left up stays up.
ManagerGone ==
    /\ op' = "none"
    /\ dpc' = "idle"
    /\ outcome' = NoOutcome
    /\ protocol' = "None"
    /\ dfind' = "none"
    /\ conn' = 0
    /\ nconn' = 0
    /\ infoConn' = 0
    /\ uattempt' = 0
    /\ max_upload_retries' = 0
    /\ ulog' = <<>>
    /\ usleeps' = <<>>
    /\ uploader_calls' = <<>>
    /\ client' = "None"
    /\ write_char' = FALSE
    /\ notification_active' = FALSE
    /\ response_queue' = <<>>
    /\ linkUp' = FALSE
    /\ subscribed' = FALSE
    /\ orphans' = orphans + (IF linkUp THEN 1 ELSE 0)
    /\ dscans' = 0

\* The update under way ends with result r.
Finish(r) ==
    /\ updates' = [updates EXCEPT ![Len(updates)].result = r]
    /\ bpc' = "idle"
    /\ ManagerGone
    /\ UNCHANGED <<openVars, sendVars, notifs, closeVars, faults, calls, exc, excAt,
                   scanVars, uopens, link_attempts, inbox, arrived>>

\* _on_message (lines 126-148) is called with the oldest waiting message.
\* A payload that is not JSON ends it at line 138; a JSON value without
\* items() or a config file that cannot be written ends it in the except
\* clause of line 155; otherwise asyncio.run starts _send_to_device.
OnMessage ==
    /\ Dispatched
    /\ inbox # <<>>
    /\ inbox' = Tail(inbox)
    /\ LET m == Head(inbox)
           j == json_loads(m.payload)
       IN  \E written \in BOOLEAN :
             LET r == CASE j = "JSONDecodeError" -> "invalid_json"
                        [] j # "dict" -> "error"
                        [] ~written -> "error"
                        [] OTHER -> "pending"
             IN  /\ updates' = Append(updates, [payload |-> m.payload, busy |-> m.busy,
                                                result |-> r])
                 /\ bpc' = IF r = "pending" THEN "sending" ELSE "idle"
    /\ UNCHANGED <<connVars, linkVars, openVars, sendVars, notifs, closeVars, faults,
                   calls, exc, excAt, op, dpc, outcome, dscans, connectVars,
                   uploadVars, scanVars, uopens, link_attempts, arrived>>

\* load_config raised (line 79): the except clause returns False (lines 112-114).
LoadFailed ==
    /\ bpc = "sending"
    /\ op = "none"
    /\ Finish("false")

\* connect_device is awaited with the protocol of the config (lines 87-92).
SendConnect(c) ==
    /\ bpc = "sending"
    /\ ConnectCall(BridgeProtocol(c))

\* connect_device raised: the except clause returns False.
SendConnectRaised ==
    /\ bpc = "sending"
    /\ op = "connect"
    /\ dpc = "raised"
    /\ Finish(SendResult(outcome))

\* generate_image raised (line 99): the except clause returns False.
GenerateFailed ==
    /\ bpc = "sending"
    /\ op = "connect"
    /\ dpc = "returned"
    /\ Finish("false")

\* upload_image(image_data, device_info) is awaited (line 103).
SendUpload ==
    /\ bpc = "sending"
    /\ UploadCall(DefaultUploadRetries)

\* upload_image returned: _send_to_device returns True or False (lines 105-110).
SendReturned ==
    /\ bpc = "sending"
    /\ op = "upload"
    /\ dpc = "returned"
    /\ Finish(SendResult(outcome))

NextBridge ==
    \/ \E p \in Payloads : Arrive(p)
    \/ OnMessage
    \/ LoadFailed
    \/ \E c \in ConfigProtocols : SendConnect(c)
    \/ ConnectFound
    \/ ConnectScanFailed
    \/ ConnectOpenOk
    \/ ConnectOpenFailed
    \/ InterrogateOk
    \/ InterrogateFailed
    \/ SendConnectRaised
    \/ GenerateFailed
    \/ SendUpload
    \/ UploadOpenOk
    \/ UploadOpenFailed
    \/ TransferOk
    \/ TransferFalse
    \/ TransferRaised
    \/ UploadSleepDone
    \/ UploadSleepInDone
    \/ SendReturned

SpecBridge == Init /\ [][NextBridge]_vars

\* Two tasks share the Connection; nothing in the writers makes one wait for
\* the other (lines 164-190 take no lock).
NextConc ==
    \/ Open
    \/ PauseDone
    \/ ScanFound
    \/ ScanNotFound
    \/ ScanError
    \/ SleepDone
    \/ LinkOk
    \/ LinkFail
    \/ ResolveDisconnected
    \/ SubscribeOk
    \/ SubscribeFail
    \/ HandshakeOk
    \/ HandshakeFail
    \/ Return
    \/ Cancel
    \/ DeviceDrop
    \/ Notify
    \/ \E p \in Callers : SendStart(p, TRUE)
    \/ \E p \in Callers : SendStart(p, FALSE)
    \/ \E p \in Callers : SendWritten(p)
    \/ \E p \in Callers : SendWriteFailed(p)
    \/ \E p \in Callers : SendReceive(p)
    \/ \E p \in Callers : SendTimeout(p)
    \/ Close

SpecConc == Init /\ [][NextConc]_vars

(***************************************************************************)
(* Properties.                                                             *)
(***************************************************************************)
BackoffDurations(log) ==
    LET b == SelectSeq(log, LAMBDA x : x.kind = "backoff")
    IN  [i \in 1..Len(b) |-> b[i].dur]

Stages == {"link", "resolve", "subscribe", "handshake"}

\* C1: when __aenter__ returns after attempts that all ended on "device not
\* found" (attempt + 1 = N attempts, the last of which found the device), it
\* has established exactly one link and slept exactly N-1 backoffs, of
\* base_delay, 2*base_delay, ..., base_delay*2^(N-2), in that order.
C1_BackoffSchedule ==
    (pc = "returning" /\ onlyNotFound) =>
        /\ linksMade = 1
        /\ BackoffDurations(sleeps) = [i \in 1..attempt |-> base_delay * 2^(i - 1)]
        /\ is_connected \/ ~linkUp

C1_Witness ==
    /\ pc = "returning"
    /\ onlyNotFound
    /\ attempt = max_retries - 1
    /\ Len(BackoffDurations(sleeps)) = max_retries - 1

\* C2 as stated: an open whose every scan finds nothing raises an error that
\* records 3 attempts.
C2_Original ==
    (pc = "raising" /\ onlyNotFound) => error.attempts = 3

\* Position of the running __aenter__ in its loop: grows with every step.
StagePos ==
    CASE pc = "pause" -> 0
      [] pc = "scan" -> 1
      [] pc = "link" -> 2
      [] pc \in {"subscribe", "resolve_disc"} -> 3
      [] pc = "handshake" -> 4
      [] pc = "sleep" -> 5
      [] OTHER -> 6

Progress == attempt * 6 + StagePos

\* C2 (amended): an open whose every scan finds nothing ends: each step of the
\* loop advances it and the loop is bounded by max_retries = 6 attempts; it
\* raises a BLEConnectionError that carries the address and records 6 attempts,
\* all of which were made.
C2_NeverFoundRaises ==
    /\ [](pc \in Suspended => attempt < max_retries /\ Progress < 6 * max_retries)
    /\ [][(pc \in Suspended /\ pc' \in Suspended /\ pc' # pc) =>
            Progress' > Progress]_vars
    /\ []((pc = "raising" /\ onlyNotFound) =>
            /\ error.type = "BLEConnectionError"
            /\ error.addr
            /\ error.attempts = 6
            /\ error.attempts = attempt + 1
            /\ linksMade = 0)

C2_Witness ==
    /\ pc = "raising"
    /\ onlyNotFound
    /\ error.attempts = max_retries

IsClose == closes' = closes + 1

\* C5 as stated: close never raises, and once a close call has found the
\* link up and acted, every later close call is a no-op.
C5_Original ==
    /\ [](~closeRaised)
    /\ [][(IsClose /\ closeActed) => calls' = <<>>]_vars

\* C5 (amended): close may be called any number of times in any state and
\* never raises, whatever stop_notify and disconnect do.  A call that finds
\* the link down (never opened, open failed, already closed, dropped by the
\* device) is a no-op: it issues no transport call and changes nothing.  A
\* call that finds the link up issues disconnect, after stop_notify if the
\* flag is set; close calls issue stop_notify at most once, and issue
\* disconnect again only after a disconnect that failed and left the link up.
C5_CloseIdempotent ==
    /\ [](~closeRaised)
    /\ [][IsClose =>
            /\ ~is_connected =>
                   /\ calls' = <<>>
                   /\ UNCHANGED <<connVars, linkVars>>
            /\ is_connected =>
                   /\ calls' = (IF notification_active THEN <<"stop_notify">> ELSE <<>>)
                                \o <<"disconnect">>
                   /\ ~notification_active'
                   /\ ~linkUp' \/ faults' > faults
            /\ closeActed =>
                   /\ \A i \in 1..Len(calls') : calls'[i] # "stop_notify"
                   /\ calls' # <<>> => faults > 0]_vars

C5_Witness ==
    /\ closes = 2
    /\ closeActed
    /\ pc = "ready"
    /\ ~linkUp
    /\ faults = 0
    /\ calls = <<>>

C7_CancelReleases ==
    pc = "cancelled" => (~linkUp /\ ~subscribed)

\* C8: a write_command_with_response call that returns a notification returns
\* one that was enqueued after its own write was issued.
C8_NoStaleResponse ==
    \A p \in Callers :
        (sendKind[p] = "resp" /\ result[p].status = "ok") => result[p].ep >= myWrite[p]

C8_Witness ==
    /\ result[1].status = "ok"
    /\ sendKind[1] = "resp"
    /\ writes = 1
    /\ notifs = 3
    /\ response_queue = <<>>
    /\ result[1].re = 1

\* C9: a call that ends in BLETimeoutError leaves the client, the resolved
\* characteristic, the flag and the link as they were; no close ever raises.
C9_TimeoutKeepsConnection ==
    /\ [][timeouts' > timeouts =>
            /\ UNCHANGED <<client, write_char, notification_active, linkUp, subscribed,
                           response_queue>>
            /\ \E p \in Callers :
                   /\ spc[p] = "waiting"
                   /\ spc'[p] = "none"
                   /\ result'[p].status = "BLETimeoutError"]_vars
    /\ [](~closeRaised)

\* A timeout, then a call that got its response on the same Connection, then
\* a close that took the link down.
C9_Witness ==
    /\ timeouts = 1
    /\ writes = 2
    /\ result[1].status = "ok"
    /\ sendKind[1] = "resp"
    /\ result[1].re = 2
    /\ closes = 1
    /\ closeActed
    /\ ~linkUp
    /\ faults = 0
    /\ ~closeRaised

\* C10: a write reaches the transport only from a Connection that is Ready
\* (opened, not closed).
C10_WriteOnlyWhenReady ==
    [][writes' > writes => (pc = "ready" /\ closes = 0)]_vars

\* C11: the pending-response channel holds at most one undelivered
\* notification in every reachable state.
C11_SingleSlot ==
    Len(response_queue) <= 1

\* C12: while one write_command_with_response call is waiting for its
\* response, no other call on the same Connection starts (drains or writes).
C12_OneOutstanding ==
    [][\A p, q \in Callers :
         (p # q /\ pc = "ready" /\ closes = 0
             /\ sendKind[q] = "resp" /\ spc[q] = "waiting" /\ spc[p] = "none")
             => spc'[p] = "none" /\ writes' = writes]_vars

Scanned == op = "discover" /\ dpc = "returned"

\* C20: an advertisement carrying only 0x1337 is classified atc, one carrying
\* only 0x2446 is classified oepl, one carrying only a foreign code is
\* dropped; the list a scan returns has one descriptor per advertisement that
\* carries a known code, and every descriptor carries a code of the table
\* and the protocol the table maps it to.
C20_Classify ==
    Scanned =>
        /\ \A i \in 1..Len(adverts) :
               LET md == adverts[i].manufacturer_data
                   d == parse_device(adverts[i])
               IN  /\ md = {4919} => (d # NoDevice /\ d.protocol = "atc")
                   /\ md = {9286} => (d # NoDevice /\ d.protocol = "oepl")
                   /\ md \cap {4919, 9286} = {} => d = NoDevice
        /\ Len(eink_devices) =
               Cardinality({i \in 1..Len(adverts) :
                               adverts[i].manufacturer_data \cap {4919, 9286} # {}})
        /\ \A k \in 1..Len(eink_devices) :
               LET d == eink_devices[k] IN
               /\ d.manufacturer_id \in {4919, 9286}
               /\ d.protocol = (IF d.manufacturer_id = 4919 THEN "atc" ELSE "oepl")
               /\ \E i \in 1..Len(adverts) :
                      /\ d.manufacturer_id \in adverts[i].manufacturer_data
                      /\ d.mac_address = upper(adverts[i].address)

\* One advertisement of each of the three cases, two descriptors.
C20_Witness ==
    /\ Scanned
    /\ Len(adverts) = 3
    /\ {adverts[i].manufacturer_data : i \in 1..3} = {{4919}, {9286}, {76}}
    /\ Len(eink_devices) = 2
    /\ {eink_devices[k].protocol : k \in 1..2} = {"atc", "oepl"}

Results(log) == [i \in 1..Len(log) |-> log[i].result]

\* C13: upload_image never raises; when no attempt's uploader reported
\* success - it returned False, it raised, or __aenter__ raised - it has made
\* max_upload_retries attempts when it returns, and it returns False.
C13_UploadReturnsFalse ==
    op = "upload" =>
        /\ outcome.kind \in {"none", "true", "false"}
        /\ Len(ulog) <= max_upload_retries
        /\ (dpc = "returned" /\ \A i \in 1..Len(ulog) : ulog[i].result # "ok") =>
               /\ outcome.kind = "false"
               /\ Len(ulog) = max_upload_retries

C13_Witness ==
    /\ op = "upload"
    /\ dpc = "returned"
    /\ max_upload_retries = 3
    /\ Results(ulog) = <<"false", "open_failed", "raised">>
    /\ outcome.kind = "false"

\* C14: when a backoff sleep of upload_image begins, the link of the
\* attempt that failed is down (no disconnect having failed).
C14_ClosedBeforeSleep ==
    (op = "upload" /\ faults = 0) =>
        \A i \in 1..Len(usleeps) : ~usleeps[i].link

\* C15: the Connection an upload attempt opens and sends on is not the one
\* stored in the DeviceInfo and not the one of an earlier attempt.
C15_FreshConnection ==
    op = "upload" =>
        /\ \A i \in 1..Len(ulog) : ulog[i].conn # infoConn
        /\ \A i, j \in 1..Len(ulog) : ulog[i].conn = ulog[j].conn => i = j
        /\ dpc \in {"up_open", "up_transfer"} =>
               /\ conn # infoConn
               /\ \A i \in 1..Len(ulog) : ulog[i].conn # conn

C15_Witness ==
    /\ op = "upload"
    /\ dpc = "up_transfer"
    /\ uattempt = 2
    /\ infoConn = 1
    /\ conn = 4
    /\ {ulog[i].conn : i \in 1..Len(ulog)} = {2, 3}

ConnectEnded == op = "connect" /\ dpc \in {"returned", "raised"}

C17_NotFoundIsTerminal ==
    /\ [][(op = "connect" /\ dpc = "find" /\ dfind' = "no_match") =>
            /\ dpc' = "raised"
            /\ outcome' = Raise("BLEConnectionError", "not found during discovery")
            /\ protocol' = protocol
            /\ nconn' = 0
            /\ conn' = 0
            /\ UNCHANGED <<connVars, linkVars>>]_vars
    /\ []((op = "connect" /\ dfind = "no_match") =>
            (dpc = "raised" /\ nconn = 0 /\ client = "None" /\ ~linkUp /\ dscans = 1))

C17_Witness ==
    /\ op = "connect"
    /\ protocol = "None"
    /\ dfind = "no_match"
    /\ dpc = "raised"
    /\ outcome.exc = "BLEConnectionError"
    /\ nconn = 0

\* C18: connect_device called with a protocol name that is not registered
\* raises UnsupportedProtocolError in the step of the call: no discovery
\* scan, no BLEConnection, no link, no sleep.
C18_UnsupportedIsImmediate ==
    [][(op = "none" /\ op' = "connect" /\ protocol' \notin {"None", "", "atc", "oepl"}) =>
        /\ dpc' = "raised"
        /\ outcome'.kind = "raise"
        /\ outcome'.exc = "UnsupportedProtocolError"
        /\ dscans' = 0
        /\ nconn' = 0
        /\ UNCHANGED <<connVars, linkVars, openVars>>]_vars

C18_Witness ==
    /\ op = "connect"
    /\ protocol = "zigbee"
    /\ dpc = "raised"
    /\ outcome.exc = "UnsupportedProtocolError"
    /\ dscans = 0
    /\ nconn = 0

ConnectRaised == op = "connect" /\ outcome.kind = "raise"

Found == op = "find" /\ dpc = "returned"

Recognised(ad) == ad.manufacturer_data \cap {4919, 9286} # {}

\* C21: find_device_by_mac called with "aa:01", "AA:01" or "AA-01" (lower
\* case, upper case, dash for colon) returns the descriptor of a device
\* advertised as AA:01 with a known manufacturer code.
C21_Normalize ==
    (Found /\ find_arg \in {"aa:01", "AA:01", "AA-01"}
        /\ \E i \in 1..Len(adverts) : adverts[i].address = "AA:01" /\ Recognised(adverts[i]))
        => (find_ret # NoDevice /\ find_ret.mac_address = "AA:01")

\* C22: a scan that raised makes discover_devices and find_device_by_mac
\* raise BLEError and return nothing; a scan that returned makes them return,
\* never raise, and when it observed no advertisement with a known code the
\* list is empty and find_device_by_mac returns None.
C22_ScanFailureDistinct ==
    /\ [][(op \in {"discover", "find"} /\ dpc = "scanning" /\ dpc' = "raised") =>
            /\ outcome'.kind = "raise"
            /\ outcome'.exc = "BLEError"
            /\ UNCHANGED <<adverts, eink_devices, find_ret>>]_vars
    /\ []((op \in {"discover", "find"} /\ dpc = "returned") =>
            /\ outcome.kind \in {"list", "device"}
            /\ (\A i \in 1..Len(adverts) : ~Recognised(adverts[i])) =>
                   (eink_devices = <<>> /\ find_ret = NoDevice))
    /\ []((op \in {"discover", "find"} /\ dpc = "raised") => outcome.kind = "raise")

\* A scan that ran and observed two devices, neither of them recognised.
C22_Witness ==
    /\ Found
    /\ Len(adverts) = 2
    /\ \A i \in 1..2 : adverts[i].manufacturer_data = {76}
    /\ eink_devices = <<>>
    /\ find_ret = NoDevice
    /\ outcome.kind = "device"

\* C23: find_device_by_mac runs one scan, over all its advertisements, and
\* returns the descriptor of the first advertisement, in observation order,
\* that carries a known code and whose address equals the requested one up
\* to case; None if there is none.  What it returns has the requested
\* address, upper-cased.
C23_FirstMatch ==
    Found =>
        LET hits == {i \in 1..Len(adverts) :
                        Recognised(adverts[i]) /\ upper(adverts[i].address) = upper(find_arg)}
        IN  /\ dscans = 1
            /\ Len(eink_devices) = Cardinality({i \in 1..Len(adverts) : Recognised(adverts[i])})
            /\ hits = {} => find_ret = NoDevice
            /\ hits # {} =>
                   \E i \in hits :
                       /\ \A k \in hits : i <= k
                       /\ find_ret = parse_device(adverts[i])
            /\ find_ret # NoDevice => find_ret.mac_address = upper(find_arg)

\* Two recognised advertisements that differ in case only: the first wins.
C23_Witness ==
    /\ Found
    /\ find_arg = "aa:01"
    /\ Len(adverts) = 3
    /\ adverts[1].address = "BB:02"
    /\ adverts[2] = [address |-> "AA:01", manufacturer_data |-> {9286}]
    /\ adverts[3] = [address |-> "aa:01", manufacturer_data |-> {4919}]
    /\ find_ret.protocol = "oepl"

\* C24 as stated: every attempt of upload_image invokes exactly one uploader,
\* exactly once, the direct-write one exactly when the protocol is oepl.
C24_Original ==
    (op = "upload" /\ dpc = "returned") =>
        \A i \in 1..Len(ulog) :
            Cardinality({k \in 1..Len(uploader_calls) : uploader_calls[k].attempt = i - 1}) = 1

\* C24 (amended): every attempt of upload_image whose Connection opened
\* invokes exactly one uploader method, exactly once: upload_direct_write
\* exactly when the protocol is oepl, upload_image (block-based) when it is
\* atc.  An attempt whose __aenter__ raised invokes neither.
C24_UploaderByProtocol ==
    op = "upload" =>
        /\ protocol \in {"atc", "oepl"}
        /\ \A k \in 1..Len(uploader_calls) :
               /\ uploader_calls[k].method = "upload_direct_write" <=> protocol = "oepl"
               /\ uploader_calls[k].method = "upload_image" <=> protocol = "atc"
        /\ \A j, k \in 1..Len(uploader_calls) :
               uploader_calls[j].attempt = uploader_calls[k].attempt => j = k
        /\ \A i \in 1..Len(ulog) :
               LET n == Cardinality({k \in 1..Len(uploader_calls) :
                                        uploader_calls[k].attempt = i - 1})
               IN  n = (IF ulog[i].result = "open_failed" THEN 0 ELSE 1)
        /\ dpc = "up_transfer" =>
               /\ uploader_calls # <<>>
               /\ uploader_calls[Len(uploader_calls)].attempt = uattempt
        /\ Len(uploader_calls) <= Len(ulog) + 1

C24_Witness ==
    /\ op = "upload"
    /\ dpc = "returned"
    /\ protocol = "oepl"
    /\ Results(ulog) = <<"false", "open_failed", "ok">>
    /\ uploader_calls = <<[attempt |-> 0, method |-> "upload_direct_write"],
                          [attempt |-> 2, method |-> "upload_direct_write"]>>

\* C25: within every attempt of __aenter__ the steps run in the order scan,
\* link, characteristic resolution, subscription, handshake.  Every attempt,
\* the first and every retry, begins with its own scan; establish_connection
\* is awaited only after the scan of the same attempt found the device; the
\* handshake is invoked only from the subscription step, with the link up,
\* the characteristic resolved and the notifications active.
C25_StageOrder ==
    /\ [][(pc' = "scan" /\ pc # "scan") =>
            /\ pc \in {"idle", "pause"}
            /\ pc = "idle" <=> attempt = 0
            /\ attempt' = attempt]_vars
    /\ [][attempt' > attempt => (pc = "sleep" /\ pc' = "pause" /\ attempt' = attempt + 1)]_vars
    /\ [][(pc = "pause" /\ pc' # pc) => pc' \in {"scan", "cancelled"}]_vars
    /\ [][(pc' = "link" /\ pc # "link") => (pc = "scan" /\ attempt' = attempt)]_vars
    /\ [][(pc' \in {"subscribe", "resolve_disc"} /\ pc' # pc) =>
            (pc = "link" /\ attempt' = attempt /\ linkUp')]_vars
    /\ [][(pc' = "subscribe" /\ pc # "subscribe") => write_char']_vars
    /\ [][(pc' = "handshake" /\ pc # "handshake") =>
            /\ pc = "subscribe"
            /\ attempt' = attempt
            /\ client' = "client"
            /\ linkUp'
            /\ write_char'
            /\ subscribed'
            /\ notification_active']_vars
    /\ [][(pc' = "returning" /\ pc # "returning") => pc = "handshake"]_vars

\* The handshake of a retry attempt that followed an attempt which linked.
C25_Witness ==
    /\ pc = "handshake"
    /\ attempt = 2
    /\ linksMade = 2
    /\ linkUp
    /\ write_char
    /\ subscribed
    /\ notification_active
    /\ Len(SelectSeq(sleeps, LAMBDA x : x.kind = "pause")) = 2

HandledAsRetry ==
    /\ attempt < max_retries - 1 =>
           /\ pc' = "sleep"
           /\ sleeps' = Append(sleeps, [kind |-> "backoff", dur |-> base_delay * 2^attempt])
           /\ error' = error
    /\ attempt = max_retries - 1 =>
           /\ pc' = "raising"
           /\ sleeps' = sleeps
           /\ error'.type = "BLEConnectionError"
           /\ error'.addr
           /\ error'.attempts = max_retries
    /\ attempt' = attempt
    /\ linksMade' = linksMade

InCall(p) == spc[p] # "none"

\* C27: a write_command_with_response call issues exactly one write, at its
\* start; nothing it does afterwards, returning a response or raising
\* BLETimeoutError, issues another.
C27_NoAutoRetry ==
    /\ [][writes' # writes =>
            /\ writes' = writes + 1
            /\ \E p \in Callers :
                   /\ ~InCall(p)
                   /\ spc'[p] = "writing"
                   /\ myWrite'[p] = writes']_vars
    /\ [][\A p \in Callers :
            (InCall(p) /\ sendKind[p] = "resp") =>
                /\ writes' = writes
                /\ myWrite'[p] = myWrite[p]]_vars
    /\ []((sendKind[Caller] = "resp" /\ ~InCall(Caller)
              /\ result[Caller].status \in {"ok", "BLETimeoutError"}) =>
            (myWrite[Caller] = writes /\ writes >= 1))

\* A call that timed out and a call that got its response: two writes.
C27_Witness ==
    /\ timeouts = 1
    /\ writes = 2
    /\ ~InCall(Caller)
    /\ sendKind[Caller] = "resp"
    /\ result[Caller].status = "ok"
    /\ myWrite[Caller] = 2
    /\ notifs = 1

\* C28: write_command issues one write and returns when write_gatt_char
\* returns, without waiting on the queue; no step of the call changes the
\* queue.
C28_NoResponseKeepsQueue ==
    /\ [][\A p \in Callers :
            (~InCall(p) /\ InCall(p)' /\ sendKind'[p] = "noresp") =>
                /\ response_queue' = response_queue
                /\ writes' = writes + 1
                /\ calls' = <<"write_gatt_char">>]_vars
    /\ [][\A p \in Callers :
            (InCall(p) /\ sendKind[p] = "noresp" /\ spc'[p] # spc[p]) =>
                /\ spc[p] = "writing"
                /\ spc'[p] = "none"
                /\ response_queue' = response_queue
                /\ writes' = writes
                /\ result'[p].status \in {"ok", "BleakError"}]_vars
    /\ [](\A p \in Callers : sendKind[p] = "noresp" => spc[p] # "waiting")

\* A write_command that returned with two notifications still queued.
C28_Witness ==
    /\ sendKind[Caller] = "noresp"
    /\ ~InCall(Caller)
    /\ result[Caller].status = "ok"
    /\ writes = 1
    /\ Len(response_queue) = 2
    /\ response_queue[1].ep = 0
    /\ response_queue[2].ep = 0

\* C29: with one caller issuing one command at a time on a Ready
\* Connection, a write_command_with_response call that follows a call which
\* timed out and that returns the device's reply to a command returns the
\* reply to its own command, not the late reply to the earlier one.
C29_NoLateReply ==
    (pc = "ready" /\ closes = 0 /\ timeouts = 1 /\ writes = 2
        /\ sendKind[Caller] = "resp" /\ result[Caller].status = "ok"
        /\ result[Caller].re # 0)
        => result[Caller].re = myWrite[Caller]

\* C30: __aenter__ returns only from a completed handshake, with the client
\* set, the characteristic resolved and the flag set, and with the link up and
\* subscribed unless the device dropped it while the handshake ran; every
\* other way out of the loop raises: the terminal BLEConnectionError, or the
\* CancelledError of a cancelled task.  No backoff sleep is begun on the last
\* attempt, so the loop never ends without a result.
C30_ReadyOrRaise ==
    /\ [][(pc' = "returning" /\ pc # "returning") =>
            /\ pc = "handshake"
            /\ client' = "client"
            /\ write_char'
            /\ notification_active'
            /\ linkUp' = linkUp
            /\ subscribed' = subscribed
            /\ error' = NoError]_vars
    /\ [][(pc' = "handshake" /\ pc # "handshake") => (linkUp' /\ subscribed')]_vars
    /\ [][(pc = "handshake" /\ pc' = "handshake" /\ linkUp' # linkUp) =>
            (~linkUp' /\ calls' = calls /\ UNCHANGED connVars)]_vars
    /\ [][(pc' = "ready" /\ pc # "ready") => pc = "returning"]_vars
    /\ [][(pc' = "raised" /\ pc # "raised") => pc = "raising"]_vars
    /\ [](pc = "raising" => error.type = "BLEConnectionError")
    /\ [](pc \in Suspended => attempt < max_retries)
    /\ [](pc = "sleep" => attempt < max_retries - 1)
    /\ [][(pc \in Suspended /\ pc' # pc) =>
            pc' \in Suspended \cup {"returning", "raising", "cancelled"}]_vars

\* The last attempt succeeded after five that failed past the scan.
C30_Witness ==
    /\ pc = "returning"
    /\ attempt = max_retries - 1
    /\ ~onlyNotFound
    /\ client = "client"
    /\ linkUp
    /\ write_char
    /\ subscribed
    /\ notification_active
    /\ linksMade >= 2

\* C31: once a close call on an opened Connection has returned, the
\* subscription flag is false, also when the device had dropped the link
\* before the close ran.
C31_FlagClearedByClose ==
    (pc = "ready" /\ closes > 0) => ~notification_active

Links == (IF linkUp THEN 1 ELSE 0) + orphans

\* C33: upload_image returns True exactly when the uploader of an attempt
\* returned True; that attempt is its last: in the step in which the
\* uploader reports success the with block is left through __aexit__ (the
\* link is taken down, unless the disconnect fails) and True is returned,
\* with no sleep and no new Connection; nothing follows the return.
C33_TrueIffSuccess ==
    /\ [](op = "upload" =>
            /\ outcome.kind = "true" <=> (\E i \in 1..Len(ulog) : ulog[i].result = "ok")
            /\ \A i \in 1..Len(ulog) :
                   ulog[i].result = "ok" => (i = Len(ulog) /\ dpc = "returned")
            /\ dpc = "returned" => outcome.kind \in {"true", "false"})
    /\ [][(op = "upload" /\ Len(ulog') > Len(ulog) /\ ulog'[Len(ulog')].result = "ok") =>
            /\ dpc = "up_transfer"
            /\ dpc' = "returned"
            /\ outcome'.kind = "true"
            /\ ~linkUp' \/ faults' > faults
            /\ linkUp => ~notification_active'
            /\ usleeps' = usleeps
            /\ nconn' = nconn
            /\ uploader_calls' = uploader_calls]_vars
    /\ [][(op = "upload" /\ dpc = "returned" /\ op' = "upload") =>
            UNCHANGED <<dpc, outcome, conn, nconn, ulog, usleeps, uploader_calls, uattempt>>]_vars

\* Success on the third attempt, after an uploader that raised and one that
\* returned False.
C33_Witness ==
    /\ op = "upload"
    /\ dpc = "returned"
    /\ outcome.kind = "true"
    /\ Results(ulog) = <<"raised", "false", "ok">>
    /\ Len(usleeps) = 2
    /\ Len(uploader_calls) = 3
    /\ ~linkUp
    /\ faults = 0

BackoffsSlept == Len(BackoffDurations(sleeps))

Sleeping == IF pc = "sleep" THEN 1 ELSE 0

USleeping == IF dpc \in {"up_sleep", "up_sleep_in"} THEN 1 ELSE 0

\* C32: in the loop of __aenter__ and in the loop of upload_image the attempt
\* number stays below the bound (max_retries = 6, resp. the max_retries
\* argument); every passage from one attempt to the next goes through exactly
\* one backoff sleep, whatever ended the attempt; and the last failed attempt
\* is followed by no sleep: the error is raised, resp. False returned, at once.
C32_BoundedBackoff ==
    /\ [](pc \in Running =>
            /\ attempt < max_retries
            /\ BackoffsSlept = attempt + Sleeping
            /\ pc = "sleep" => attempt < max_retries - 1)
    /\ [][(pc \in Running /\ attempt' # attempt /\ pc' \in Running) =>
            /\ pc = "sleep"
            /\ attempt' = attempt + 1
            /\ BackoffDurations(sleeps') = BackoffDurations(sleeps)]_vars
    /\ [][(pc \in Running /\ pc' = "raising") =>
            BackoffDurations(sleeps') = BackoffDurations(sleeps)]_vars
    /\ [](op = "upload" =>
            /\ Len(ulog) <= max_upload_retries
            /\ uattempt < max_upload_retries \/ max_upload_retries = 0
            /\ Len(usleeps) = uattempt + USleeping
            /\ USleeping = 1 => uattempt < max_upload_retries - 1
            /\ dpc = "returned" => Len(ulog) \in {uattempt + 1, max_upload_retries})
    /\ [][(op = "upload" /\ op' = "upload" /\ uattempt' # uattempt) =>
            /\ USleeping = 1
            /\ uattempt' = uattempt + 1
            /\ usleeps' = usleeps]_vars
    /\ [][(op = "upload" /\ dpc # "returned" /\ dpc' = "returned") =>
            usleeps' = usleeps]_vars

\* Both loops used up: an upload of two attempts returned False; the first
\* opened on its sixth link attempt and its uploader raised, the second
\* could not open in six attempts.
C32_Witness ==
    /\ op = "upload"
    /\ dpc = "returned"
    /\ outcome.kind = "false"
    /\ max_upload_retries = 2
    /\ Results(ulog) = <<"raised", "open_failed">>
    /\ Len(usleeps) = 1
    /\ link_attempts = 2 * max_retries

\* __aenter__ calls upload_image has made, the one under way included.
Opens == uopens + (IF dpc = "up_open" /\ pc \in Running THEN 1 ELSE 0)

\* Link-level attempts made by those calls, the one under way included.
LinkAttempts == link_attempts + (IF dpc = "up_open" /\ pc \in Running THEN attempt + 1 ELSE 0)

\* C35: upload_image called with max_retries = N returns whenever each of its
\* awaits completes; until then it has made at most N __aenter__ calls, at
\* most N * 6 link-level attempts in all and at most N - 1 sleeps of its own,
\* and every __aenter__ call starts its attempt counter at zero.
C35_UploadTerminates ==
    /\ [](op = "upload" =>
            /\ Opens <= max_upload_retries
            /\ LinkAttempts <= max_upload_retries * max_retries
            /\ Len(usleeps) <= max_upload_retries - 1 \/ max_upload_retries = 0
            /\ max_upload_retries = 0 => Opens = 0 /\ Len(usleeps) = 0)
    /\ [][(op = "upload" /\ pc = "idle" /\ pc' # "idle") =>
            /\ pc' = "scan"
            /\ attempt' = 0
            /\ sleeps' = <<>>]_vars
    /\ (op = "upload") ~> (op = "upload" /\ dpc = "returned")

\* Every bound met: an upload of two attempts whose first __aenter__ used up
\* its six link attempts and whose second opened on its sixth, then uploaded.
C35_Witness ==
    /\ op = "upload"
    /\ dpc = "returned"
    /\ outcome.kind = "true"
    /\ max_upload_retries = 2
    /\ Results(ulog) = <<"open_failed", "ok">>
    /\ uopens = 2
    /\ link_attempts = 2 * max_retries
    /\ Len(usleeps) = 1

Pending(i) == updates[i].result = "pending"

====
